---- MODULE Spec2Model ----
(***************************************************************************)
(* Model of the sentiment analysis backend (src/sentiment-backend.py):     *)
(* the /analyze handler, its collaborators, and the regex-based field      *)
(* extraction of analyze_with_gemini.                                      *)
(*                                                                         *)
(* A text is a sequence of characters.  Every punctuation character the    *)
(* regular expressions look at is one element; a run of letters (a word)   *)
(* is one element as well, since no pattern ever splits a word.            *)
(***************************************************************************)
EXTENDS Integers, Sequences, FiniteSets, TLC

\* ------------------------------------------------------------------ bounds
MaxArticles == 3
MaxInsights == 2

\* -------------------------------------------------------------- characters
QUOTE == "\""
BACKSLASH == "\\"
SPACE == " "
NEWLINE == "\n"
Digits == {"0", "1", "2", "3", "4", "5", "6", "7", "8", "9"}

DigitVal(c) ==
    CASE c = "0" -> 0 [] c = "1" -> 1 [] c = "2" -> 2 [] c = "3" -> 3
      [] c = "4" -> 4 [] c = "5" -> 5 [] c = "6" -> 6 [] c = "7" -> 7
      [] c = "8" -> 8 [] c = "9" -> 9

\* regex class \s
IsSpace(c) == c \in {SPACE, NEWLINE}

\* Python's None
None == [matched |-> FALSE]

Group(g) == [matched |-> TRUE, group1 |-> g]

\* ------------------------------------------------------- regex primitives
RECURSIVE SkipSpace(_, _)
\* \s* from position p: the first position that does not hold whitespace
SkipSpace(text, p) ==
    IF p <= Len(text) /\ IsSpace(text[p]) THEN SkipSpace(text, p + 1) ELSE p

RECURSIVE SkipNonQuote(_, _)
\* [^"]* from position p: the first position that holds a quote (or the end)
SkipNonQuote(text, p) ==
    IF p <= Len(text) /\ text[p] # QUOTE THEN SkipNonQuote(text, p + 1) ELSE p

RECURSIVE SkipDigits(_, _)
\* \d* from position p
SkipDigits(text, p) ==
    IF p <= Len(text) /\ text[p] \in Digits THEN SkipDigits(text, p + 1) ELSE p

\* "key"\s*:\s* matched at position p: the position after it, 0 if no match
KeyPrefixEnd(text, p, key) ==
    IF p + 2 <= Len(text) /\ text[p] = QUOTE /\ text[p + 1] = key
                          /\ text[p + 2] = QUOTE
    THEN LET c == SkipSpace(text, p + 3)
         IN  IF c <= Len(text) /\ text[c] = ":"
             THEN SkipSpace(text, c + 1)
             ELSE 0
    ELSE 0

\* "key"\s*:\s*"([^"]+)" matched at position p
QuotedMatchAt(text, p, key) ==
    LET v == KeyPrefixEnd(text, p, key)
    IN  IF v = 0 \/ v > Len(text) \/ text[v] # QUOTE THEN None
        ELSE LET e == SkipNonQuote(text, v + 1)
             IN  IF e > v + 1 /\ e <= Len(text)
                 THEN Group(SubSeq(text, v + 1, e - 1))
                 ELSE None

\* "key"\s*:\s*(\d+) matched at position p
DigitsMatchAt(text, p, key) ==
    LET v == KeyPrefixEnd(text, p, key)
    IN  IF v = 0 THEN None
        ELSE LET e == SkipDigits(text, v)
             IN  IF e > v THEN Group(SubSeq(text, v, e - 1)) ELSE None

RECURSIVE FirstClose(_, _)
\* .*?\] from position p (DOTALL): the position of the first ], 0 if none
FirstClose(text, p) ==
    IF p > Len(text) THEN 0
    ELSE IF text[p] = "]" THEN p
    ELSE FirstClose(text, p + 1)

\* "key"\s*:\s*\[(.*?)\] matched at position p
BlockMatchAt(text, p, key) ==
    LET v == KeyPrefixEnd(text, p, key)
    IN  IF v = 0 \/ v > Len(text) \/ text[v] # "[" THEN None
        ELSE LET e == FirstClose(text, v + 1)
             IN  IF e = 0 THEN None ELSE Group(SubSeq(text, v + 1, e - 1))

RECURSIVE SearchQuotedFrom(_, _, _)
SearchQuotedFrom(text, p, key) ==
    IF p > Len(text) THEN None
    ELSE IF QuotedMatchAt(text, p, key).matched THEN QuotedMatchAt(text, p, key)
    ELSE SearchQuotedFrom(text, p + 1, key)

RECURSIVE SearchDigitsFrom(_, _, _)
SearchDigitsFrom(text, p, key) ==
    IF p > Len(text) THEN None
    ELSE IF DigitsMatchAt(text, p, key).matched THEN DigitsMatchAt(text, p, key)
    ELSE SearchDigitsFrom(text, p + 1, key)

RECURSIVE SearchBlockFrom(_, _, _)
SearchBlockFrom(text, p, key) ==
    IF p > Len(text) THEN None
    ELSE IF BlockMatchAt(text, p, key).matched THEN BlockMatchAt(text, p, key)
    ELSE SearchBlockFrom(text, p + 1, key)

\* re.search: the match at the leftmost position where the pattern matches
SearchQuoted(text, key) == SearchQuotedFrom(text, 1, key)

SearchDigits(text, key) == SearchDigitsFrom(text, 1, key)

SearchBlock(text, key) == SearchBlockFrom(text, 1, key)

RECURSIVE FindAllFrom(_, _)
\* re.findall(r'"([^"]+)"', block): non-overlapping matches, left to right
FindAllFrom(block, p) ==
    IF p > Len(block) THEN << >>
    ELSE IF block[p] = QUOTE
         THEN LET e == SkipNonQuote(block, p + 1)
              IN  IF e > p + 1 /\ e <= Len(block)
                  THEN << SubSeq(block, p + 1, e - 1) >> \o FindAllFrom(block, e + 1)
                  ELSE FindAllFrom(block, p + 1)
         ELSE FindAllFrom(block, p + 1)

FindAll(block) == FindAllFrom(block, 1)

RECURSIVE Strip(_)
\* str.strip()
Strip(s) ==
    IF s = << >> THEN s
    ELSE IF IsSpace(Head(s)) THEN Strip(Tail(s))
    ELSE IF IsSpace(s[Len(s)]) THEN Strip(SubSeq(s, 1, Len(s) - 1))
    ELSE s

RECURSIVE ParseInt(_)
\* int() of a string of decimal digits
ParseInt(ds) ==
    IF ds = << >> THEN 0
    ELSE 10 * ParseInt(SubSeq(ds, 1, Len(ds) - 1)) + DigitVal(ds[Len(ds)])

\* ------------------------------------------------------------- extraction
Unknown == << "Unknown" >>
NoSummary == << "No", SPACE, "summary", "." >>

SentimentResult(title, sentiment, confidence, summary, insights, url) ==
    [title |-> title, sentiment |-> sentiment, confidence |-> confidence,
     summary |-> summary, insights |-> insights, url |-> url]

\* a variant that trusts the model to echo the title
analyze_with_gemini_echo(title, url, response_text) ==
    LET echoed == SearchQuoted(response_text, "title")
        sentiment == SearchQuoted(response_text, "sentiment")
        confidence == SearchDigits(response_text, "confidence")
        summary == SearchQuoted(response_text, "summary")
        insights_block == SearchBlock(response_text, "insights")
    IN  SentimentResult(
            IF echoed.matched THEN echoed.group1 ELSE title,
            IF sentiment.matched THEN Strip(sentiment.group1) ELSE Unknown,
            IF confidence.matched THEN ParseInt(confidence.group1) ELSE 0,
            IF summary.matched THEN Strip(summary.group1) ELSE NoSummary,
            IF insights_block.matched THEN FindAll(insights_block.group1) ELSE << >>,
            url)

\* a variant that parses all or nothing: one missing field loses the others
analyze_with_gemini_monolithic(title, url, response_text) ==
    LET sentiment == SearchQuoted(response_text, "sentiment")
        confidence == SearchDigits(response_text, "confidence")
        summary == SearchQuoted(response_text, "summary")
        insights_block == SearchBlock(response_text, "insights")
    IN  IF sentiment.matched /\ confidence.matched /\ summary.matched
           /\ insights_block.matched
        THEN SentimentResult(title, Strip(sentiment.group1),
                             ParseInt(confidence.group1), Strip(summary.group1),
                             FindAll(insights_block.group1), url)
        ELSE SentimentResult(title, Unknown, 0, NoSummary, << >>, url)

\* lines 120-133 of analyze_with_gemini, applied to the model's response text
analyze_with_gemini(title, url, response_text) ==
    LET sentiment == SearchQuoted(response_text, "sentiment")
        confidence == SearchDigits(response_text, "confidence")
        summary == SearchQuoted(response_text, "summary")
        insights_block == SearchBlock(response_text, "insights")
        insights == IF insights_block.matched
                    THEN FindAll(insights_block.group1) ELSE << >>
    IN  SentimentResult(
            title,
            IF sentiment.matched THEN Strip(sentiment.group1) ELSE Unknown,
            IF confidence.matched THEN ParseInt(confidence.group1) ELSE 0,
            IF summary.matched THEN Strip(summary.group1) ELSE NoSummary,
            insights,
            url)

\* ------------------------------------------------- model response texts
\* The response format the prompt asks for (prompt lines 102-110): an object
\* with the keys title, summary, sentiment, confidence, insights, url.
FieldOrder == << "title", "summary", "sentiment", "confidence", "insights", "url" >>
ExtractedFields == {"summary", "sentiment", "confidence", "insights"}

KeyPart(key) == << QUOTE, key, QUOTE, ":", SPACE >>

RECURSIVE Escape(_)
\* JSON string escaping of the quote character
Escape(s) ==
    IF s = << >> THEN << >>
    ELSE (IF Head(s) = QUOTE THEN << BACKSLASH, QUOTE >> ELSE << Head(s) >>)
         \o Escape(Tail(s))

JsonString(s) == << QUOTE >> \o Escape(s) \o << QUOTE >>

RECURSIVE JsonArrayItems(_)
JsonArrayItems(items) ==
    IF items = << >> THEN << >>
    ELSE JsonString(Head(items))
         \o (IF Len(items) > 1 THEN << ",", SPACE >> ELSE << >>)
         \o JsonArrayItems(Tail(items))

JsonArray(items) == << "[" >> \o JsonArrayItems(items) \o << "]" >>

RECURSIVE JsonNumber(_)
JsonNumber(n) ==
    IF n < 10 THEN << CHOOSE c \in Digits : DigitVal(c) = n >>
    ELSE JsonNumber(n \div 10) \o << CHOOSE c \in Digits : DigitVal(c) = n % 10 >>

\* a rendering of one field: how it is written, and the value it encodes
Value(key, seg, val) == [kind |-> "value", seg |-> KeyPart(key) \o seg, val |-> val]
Degraded(how, seg) == [kind |-> how, seg |-> seg, val |-> << >>]
Absent == Degraded("absent", << >>)

SentimentLabels == { << "Bullish" >>, << "Very", SPACE, "Bearish" >> }
SummaryTexts == { << "X", "." >>,
                  << "He", SPACE, "said", SPACE, QUOTE, "up", QUOTE, "." >> }
ConfidenceValues == {7, 10, 11}
InsightTexts == { << "a" >>, << "b" >>, << "see", SPACE, "[", "1", "]" >> }

RECURSIVE SeqsUpTo(_, _)
\* all sequences over S of length at most n
SeqsUpTo(S, n) ==
    IF n = 0 THEN { << >> }
    ELSE LET shorter == SeqsUpTo(S, n - 1)
         IN  shorter \cup { Append(q, x) : q \in shorter, x \in S }

InsightLists == SeqsUpTo(InsightTexts, MaxInsights)

TitleRenderings ==
    { Absent, Value("title", JsonString(<< "Other", SPACE, "headline" >>),
                    << "Other", SPACE, "headline" >>) }

UrlRenderings ==
    { Value("url", JsonString(<< "http", ":", "other" >>), << "http", ":", "other" >>) }

SentimentRenderings ==
    { Value("sentiment", JsonString(l), l) : l \in SentimentLabels }
    \cup { Absent,
           Degraded("padded", << QUOTE, "sentiment", QUOTE, SPACE, ":", NEWLINE,
                                 QUOTE, SPACE, "Bullish", SPACE, QUOTE >>),
           Degraded("empty", KeyPart("sentiment") \o << QUOTE, QUOTE >>),
           Degraded("null", KeyPart("sentiment") \o << "null" >>),
           Degraded("unterminated", KeyPart("sentiment") \o << QUOTE, "Bullish" >>) }

ConfidenceRenderings ==
    { Value("confidence", JsonNumber(n), n) : n \in ConfidenceValues }
    \cup { Absent,
           Degraded("quoted", KeyPart("confidence") \o << QUOTE, "7", QUOTE >>),
           Degraded("negative", KeyPart("confidence") \o << "-", "5" >>),
           Degraded("null", KeyPart("confidence") \o << "null" >>) }

SummaryRenderings ==
    { Value("summary", JsonString(t), t) : t \in SummaryTexts }
    \cup { Absent,
           Degraded("empty", KeyPart("summary") \o << QUOTE, QUOTE >>),
           Degraded("null", KeyPart("summary") \o << "null" >>),
           Degraded("unterminated", KeyPart("summary") \o << QUOTE, "X", "." >>) }

InsightsRenderings ==
    { Value("insights", JsonArray(l), l) : l \in InsightLists }
    \cup { Absent,
           Degraded("null", KeyPart("insights") \o << "null" >>),
           Degraded("string", KeyPart("insights") \o << QUOTE, "a", QUOTE >>),
           Degraded("unterminated", KeyPart("insights") \o << "[", QUOTE, "a", QUOTE >>) }

\* a response document: one rendering per key
Docs ==
    [title : TitleRenderings, summary : SummaryRenderings,
     sentiment : SentimentRenderings, confidence : ConfidenceRenderings,
     insights : InsightsRenderings, url : UrlRenderings]

RECURSIVE RenderFrom(_, _)
\* the members that are present, from the i-th on, separated by commas
RenderFrom(d, i) ==
    IF i > Len(FieldOrder) THEN << >>
    ELSE IF d[FieldOrder[i]].kind = "absent" THEN RenderFrom(d, i + 1)
    ELSE d[FieldOrder[i]].seg
         \o (IF \E j \in (i + 1)..Len(FieldOrder) : d[FieldOrder[j]].kind # "absent"
             THEN << ",", NEWLINE >> ELSE << NEWLINE >>)
         \o RenderFrom(d, i + 1)

\* the response text of a document, wrapped in prose
Render(d) == << "Analysis", ":", NEWLINE, "{", NEWLINE >>
             \o RenderFrom(d, 1) \o << "}", NEWLINE >>

WellFormed(d) == \A i \in 1..Len(FieldOrder) : d[FieldOrder[i]].kind = "value"

\* ------------------------------------------------------------ collaborators
Missing == << "<missing>" >>
NoTitle == << "No", SPACE, "Title" >>

\* dict.get(key, default)
DictGet(article, key, default) ==
    IF article[key] = Missing THEN default ELSE article[key]

\* article stubs the search collaborator can return
ArticleRefs ==
    { [title |-> << "Fed", SPACE, "holds", SPACE, "rates" >>,
       description |-> << "d" >>, url |-> << "http", ":", "a" >>],
      [title |-> Missing, description |-> Missing, url |-> << "http", ":", "b" >>] }

ArticleLists == SeqsUpTo(ArticleRefs, MaxArticles)

\* values of num_articles in a request body (5 is TopicRequest's default)
NumArticlesInputs == {-1, 0, 5}

\* what Article.download/parse can do: raise, or yield a possibly empty text
FetchOutcomes ==
    { [raised |-> TRUE, text |-> << >>],
      [raised |-> FALSE, text |-> << >>],
      [raised |-> FALSE, text |-> << "body" >>] }

Returned(v) == [raised |-> FALSE, value |-> v]
Raised == [raised |-> TRUE, value |-> << >>]

get_article_content_propagates(outcome, fallback_title) ==
    IF outcome.raised THEN Raised
    ELSE Returned(IF outcome.text # << >> THEN outcome.text ELSE fallback_title)

\* lines 68-76
get_article_content(outcome, fallback_title) ==
    IF outcome.raised THEN Returned(fallback_title)
    ELSE Returned(IF outcome.text # << >> THEN outcome.text ELSE fallback_title)

\* response documents the model answers with in the batch pipeline
FullDoc ==
    [title |-> CHOOSE r \in TitleRenderings : r.kind = "value",
     summary |-> Value("summary", JsonString(<< "X", "." >>), << "X", "." >>),
     sentiment |-> Value("sentiment", JsonString(<< "Bullish" >>), << "Bullish" >>),
     confidence |-> Value("confidence", JsonNumber(7), 7),
     insights |-> Value("insights", JsonArray(<< << "a" >>, << "b" >> >>),
                        << << "a" >>, << "b" >> >>),
     url |-> CHOOSE r \in UrlRenderings : r.kind = "value"]

ModelResponses ==
    { Render(FullDoc),
      Render([FullDoc EXCEPT !["insights"] = Absent, !["sentiment"] = Absent]) }

\* ------------------------------------------------------------------- state
VARIABLES
    pc,             \* position of the handler: idle, search, loop, done, extracted
    request,        \* the TopicRequest being served
    articles,       \* what get_news_articles returned
    results,        \* the handler's local result list
    response,       \* what the caller receives: status code and results
    searchLog,      \* calls made to the search collaborator
    fetchLog,       \* calls made to the content resolver
    modelLog,       \* calls made to the model
    doc,            \* the document the model answered with (single analysis)
    response_text,  \* response.text of the single analysis
    extracted       \* the SentimentResult of the single analysis

vars == << pc, request, articles, results, response, searchLog, fetchLog,
           modelLog, doc, response_text, extracted >>

pipelineVars == << request, articles, results, response, searchLog, fetchLog, modelLog >>
extractVars == << doc, response_text, extracted >>

NoResponse == [status |-> 0, results |-> << >>]
NoResult == SentimentResult(<< >>, << >>, 0, << >>, << >>, << >>)

\* lines 41-43
TopicRequest(topic, num_articles) == [topic |-> topic, num_articles |-> num_articles]

Init ==
    /\ pc = "idle"
    /\ request = TopicRequest("Finance", 5)
    /\ articles = << >>
    /\ results = << >>
    /\ response = NoResponse
    /\ searchLog = << >>
    /\ fetchLog = << >>
    /\ modelLog = << >>
    /\ doc = [k \in {} |-> Absent]
    /\ response_text = << >>
    /\ extracted = NoResult

\* ---------------------------------------------------------------- handler
\* raise HTTPException(status_code, ...)
HTTPException(status_code) == [type |-> "HTTPException", status_code |-> status_code]
OtherException == [type |-> "Exception", status_code |-> 0]

\* lines 165-167: except Exception catches every exception raised in the try
\* block, HTTPException included, and raises a 500
ExceptException(e) == [status |-> 500, results |-> << >>]

never_empty(list) == FALSE

\* line 143: not articles
not_articles(list) == list = << >>

\* line 140: the request body is parsed into a TopicRequest
PostAnalyze ==
    /\ pc = "idle"
    /\ \E n \in NumArticlesInputs : request' = TopicRequest("Finance", n)
    /\ pc' = "search"
    /\ UNCHANGED << articles, results, response, searchLog, fetchLog, modelLog >>
    /\ UNCHANGED extractVars

\* lines 60-65: the search request fails, raise_for_status raises
SearchFails ==
    /\ pc = "search"
    /\ searchLog' = Append(searchLog, [count |-> request.num_articles, raised |-> TRUE])
    /\ response' = ExceptException(OtherException)
    /\ pc' = "done"
    /\ UNCHANGED << request, articles, results, fetchLog, modelLog >>
    /\ UNCHANGED extractVars

\* lines 142-146: the search returns list
SearchReturns(list) ==
    /\ pc = "search"
    /\ searchLog' = Append(searchLog, [count |-> request.num_articles, raised |-> FALSE])
    /\ articles' = list
    /\ IF not_articles(list)
       THEN /\ response' = ExceptException(HTTPException(404))
            /\ pc' = "done"
            /\ UNCHANGED results
       ELSE /\ results' = << >>
            /\ pc' = "loop"
            /\ UNCHANGED response
    /\ UNCHANGED << request, fetchLog, modelLog >>
    /\ UNCHANGED extractVars

SearchReturnsEmpty == SearchReturns(<< >>)

SearchReturnsArticles == \E list \in ArticleLists \ {<< >>} : SearchReturns(list)

ArticleTitle(article) == DictGet(article, "title", NoTitle)
ArticleUrl(article) == DictGet(article, "url", << >>)

\* lines 147-161: one iteration of the loop, for the next article
LoopBody(fo, mo) ==
    LET article == articles[Len(results) + 1]
        title == ArticleTitle(article)
        url == ArticleUrl(article)
        content == get_article_content(fo, title)
    IN  /\ fetchLog' = Append(fetchLog, [url |-> url, raised |-> fo.raised, text |-> fo.text])
        /\ IF content.raised
           THEN /\ response' = ExceptException(OtherException)
                /\ pc' = "done"
                /\ UNCHANGED << results, modelLog >>
           ELSE /\ modelLog' = Append(modelLog,
                        [title |-> title, url |-> url, content |-> content.value,
                         raised |-> mo.raised, text |-> mo.text])
                /\ IF mo.raised
                   THEN /\ response' = ExceptException(OtherException)
                        /\ pc' = "done"
                        /\ UNCHANGED results
                   ELSE /\ results' = Append(results, analyze_with_gemini(title, url, mo.text))
                        /\ UNCHANGED << pc, response >>
        /\ UNCHANGED << request, articles, searchLog >>
        /\ UNCHANGED extractVars

\* the model answers: the article's result is appended
AnalyzeArticle ==
    /\ pc = "loop"
    /\ Len(results) < Len(articles)
    /\ \E fo \in FetchOutcomes, r \in ModelResponses :
           LoopBody(fo, [raised |-> FALSE, text |-> r])

\* a variant that swallows the model's exception: the article degrades to the
\* defaults and the loop goes on
AnalyzeArticleModelRaisesSwallowed ==
    /\ pc = "loop"
    /\ Len(results) < Len(articles)
    /\ \E fo \in FetchOutcomes :
         LET article == articles[Len(results) + 1]
             title == ArticleTitle(article)
             url == ArticleUrl(article)
         IN  /\ fetchLog' = Append(fetchLog, [url |-> url, raised |-> fo.raised,
                                             text |-> fo.text])
             /\ modelLog' = Append(modelLog,
                     [title |-> title, url |-> url,
                      content |-> get_article_content(fo, title).value,
                      raised |-> TRUE, text |-> << >>])
             /\ results' = Append(results,
                     SentimentResult(title, Unknown, 0, NoSummary, << >>, url))
    /\ UNCHANGED << pc, request, articles, response, searchLog >>
    /\ UNCHANGED extractVars

\* lines 112-115 raise: the exception leaves the loop and reaches the handler
AnalyzeArticleModelRaises ==
    /\ pc = "loop"
    /\ Len(results) < Len(articles)
    /\ \E fo \in FetchOutcomes : LoopBody(fo, [raised |-> TRUE, text |-> << >>])

\* line 163
ReturnResults ==
    /\ pc = "loop"
    /\ Len(results) = Len(articles)
    /\ response' = [status |-> 200, results |-> results]
    /\ pc' = "done"
    /\ UNCHANGED << request, articles, results, searchLog, fetchLog, modelLog >>
    /\ UNCHANGED extractVars

Next ==
    \/ PostAnalyze
    \/ SearchFails
    \/ SearchReturnsEmpty
    \/ SearchReturnsArticles
    \/ AnalyzeArticle
    \/ AnalyzeArticleModelRaises
    \/ ReturnResults

Spec == Init /\ [][Next]_vars

\* ------------------------------------------ one analysis, any response text
TheTitle == << "Fed", SPACE, "holds", SPACE, "rates" >>
TheUrl == << "http", ":", "a" >>

\* analyze_with_gemini is called and the model answers with document d
Analyze(d) ==
    /\ pc = "idle"
    /\ doc' = d
    /\ response_text' = Render(d)
    /\ extracted' = analyze_with_gemini(TheTitle, TheUrl, response_text')
    /\ pc' = "extracted"
    /\ UNCHANGED pipelineVars

\* the answer has all the keys, each with a value of its type
AnalyzeWellFormed ==
    /\ pc = "idle"
    /\ \E d \in Docs : WellFormed(d) /\ Analyze(d)

\* the answer lacks a key, or a key's value is malformed
AnalyzeDegraded ==
    /\ pc = "idle"
    /\ \E d \in Docs : ~WellFormed(d) /\ Analyze(d)

NextExtract == AnalyzeWellFormed \/ AnalyzeDegraded

SpecExtract == Init /\ [][NextExtract]_vars

\* ------------------------------------------------------------------ claims
SearchReturnedEmpty ==
    /\ searchLog # << >>
    /\ ~searchLog[1].raised
    /\ articles = << >>

\* C1: when the search returns an empty article list, the caller gets a
\* not-found (404) response, and no content resolution or model call is made.
C1_EmptyDiscoveryIsNotFound ==
    (pc = "done" /\ SearchReturnedEmpty)
        => /\ response.status = 404
           /\ fetchLog = << >>
           /\ modelLog = << >>

\* C2: a request whose num_articles is 0 or negative is rejected before any
\* network call (search, content fetch, model completion) is made.
C2_NonPositiveRejectedBeforeNetwork ==
    request.num_articles < 1
        => /\ searchLog = << >>
           /\ fetchLog = << >>
           /\ modelLog = << >>

\* C3: a finished request is either a success with exactly one result entry
\* per discovered article, at least one, or an error without results; nothing
\* is returned before the request finishes.
C3_FullListOrError ==
    /\ pc # "done" => response = NoResponse
    /\ pc = "done" =>
         \/ /\ response.status = 200
            /\ Len(response.results) = Len(articles)
            /\ Len(response.results) >= 1
         \/ /\ response.status \in {404, 500}
            /\ response.results = << >>

C3_Witness ==
    /\ pc = "done"
    /\ response.status = 200
    /\ Len(response.results) >= 2
    /\ \E i \in 1..Len(fetchLog) : fetchLog[i].raised
    /\ \E i \in 1..Len(response.results) : response.results[i].sentiment = Unknown

\* C4: on success the i-th result entry carries the title and the url of the
\* i-th discovered article, whatever title and url the model's text contains.
C4_OrderAndIdentity ==
    response.status = 200 =>
        \A i \in 1..Len(response.results) :
            /\ i <= Len(articles)
            /\ response.results[i].title = ArticleTitle(articles[i])
            /\ response.results[i].url = ArticleUrl(articles[i])

C4_Witness ==
    /\ response.status = 200
    /\ Len(response.results) >= 2
    /\ articles[1] # articles[2]
    /\ SearchQuoted(modelLog[1].text, "title").matched
    /\ SearchQuoted(modelLog[1].text, "title").group1 # response.results[1].title
    /\ SearchQuoted(modelLog[1].text, "url").group1 # response.results[1].url

\* C5: when the model call raises for the k-th article, the request is over:
\* k is the last article fetched and analysed, the k-1 results computed so far
\* are not returned, and the caller gets a 500.
C5_ModelFailureAborts ==
    \A k \in 1..Len(modelLog) :
        modelLog[k].raised
            => /\ pc = "done"
               /\ response.status = 500
               /\ response.results = << >>
               /\ Len(modelLog) = k
               /\ Len(fetchLog) = k
               /\ Len(results) = k - 1

C5_Witness ==
    /\ Len(articles) = 3
    /\ Len(modelLog) = 2
    /\ modelLog[2].raised
    /\ Len(results) = 1
    /\ response.status = 500

ContentFailureRecovered ==
    /\ Len(modelLog) = Len(fetchLog)
    /\ \A i \in 1..Len(modelLog) :
         /\ fetchLog[i].raised => modelLog[i].content = ArticleTitle(articles[i])
         /\ modelLog[i].content =
                IF fetchLog[i].raised \/ fetchLog[i].text = << >>
                THEN ArticleTitle(articles[i]) ELSE fetchLog[i].text
         /\ ~modelLog[i].raised => i <= Len(results)
    /\ response.status = 500 =>
         \/ searchLog[1].raised
         \/ articles = << >>
         \/ modelLog # << >> /\ modelLog[Len(modelLog)].raised

SiblingsUntouched ==
    \/ results' = results
    \/ LET i == Len(results) + 1
       IN  results' = Append(results,
               analyze_with_gemini(ArticleTitle(articles[i]), ArticleUrl(articles[i]),
                                   modelLog'[i].text))

\* C6: a content-resolution failure never ends the request: the article is
\* analysed with its title as the content and gets its result entry, every
\* article's content depends on its own fetch only, an error response comes
\* from the search or from a model call and not from a fetch, and a step
\* leaves the results of the other articles as they are, adding what the
\* extractor makes of this article's model answer.
C6_ContentFailureRecovered ==
    []ContentFailureRecovered /\ [][SiblingsUntouched]_vars

C6_Witness ==
    /\ response.status = 200
    /\ Len(response.results) = 3
    /\ fetchLog[2].raised
    /\ ~fetchLog[1].raised
    /\ fetchLog[3].text # << >>
    /\ modelLog[2].content = ArticleTitle(articles[2])
    /\ response.results[2].sentiment = << "Bullish" >>

\* C7: every extracted result has a confidence in 0..10 and an insights
\* value that is a sequence (never None).
C7_ConfidenceInRange ==
    pc = "extracted"
        => /\ extracted.confidence \in 0..10
           /\ DOMAIN extracted.insights = 1..Len(extracted.insights)

HasKey(text, key) ==
    \E p \in 1..(Len(text) - 2) :
        text[p] = QUOTE /\ text[p + 1] = key /\ text[p + 2] = QUOTE

C9_RoundTrip ==
    (pc = "extracted" /\ WellFormed(doc))
        => /\ extracted.sentiment = doc.sentiment.val
           /\ extracted.confidence = doc.confidence.val
           /\ extracted.summary = doc.summary.val
           /\ extracted.insights = doc.insights.val

\* C10: the extracted insights are exactly the quoted strings of the insights
\* array, in order.
C10_InsightsExact ==
    (pc = "extracted" /\ doc.insights.kind = "value")
        => extracted.insights = doc.insights.val

====
